---- MODULE Spec2Model ----
(***************************************************************************)
(* A model of cmd/wuffs-c/internal/cgen/base/core-public.h: the status     *)
(* predicates, the fixed-width min / max / saturating arithmetic and the   *)
(* slice_u8 sub-slicing functions.                                         *)
(*                                                                         *)
(* Unsigned integers are byte vectors of the width of their C type, which  *)
(* keeps the 32- and 64-bit types at their real width and lets the         *)
(* bit-twiddling of sat_add / sat_sub be modelled as the code does it.     *)
(***************************************************************************)
EXTENDS Integers, Sequences, FiniteSets, TLC

VARIABLES w, x, y, op, res, loc,
          z, ret,
          wordsize, elem, buf, recv, out, sop, si, sj

numVars    == <<w, x, y, op, res, loc>>
statusVars == <<z, ret>>
sliceVars  == <<wordsize, elem, buf, recv, out, sop, si, sj>>
vars       == <<w, x, y, op, res, loc, z, ret,
                wordsize, elem, buf, recv, out, sop, si, sj>>

----------------------------------------------------------------------------
(* Bounds of the model.                                                    *)

\* Inputs of the arithmetic functions lie within EdgeSpan of 0, of 2^w - 1
\* and of the two values around 2^(w-1).
EdgeSpan == 2

\* Longest status message (characters before the terminating NUL).
MaxStatusLen == 2

\* Length, in elements, of the caller-owned buffer the first view covers.
MaxLen == 7

----------------------------------------------------------------------------------------------------------------------------------------------------
(* Unsigned integers as byte vectors.                                      *)
(*                                                                         *)
(* A value of an n-bit type is the sequence of its n / 8 bytes, least      *)
(* significant byte first.                                                 *)

Byte == 0..255

Bytes(n) == n \div 8

Zeros(n) == [k \in 1..Bytes(n) |-> 0]
Ones(n)  == [k \in 1..Bytes(n) |-> 255]

\* The n-bit value of a small natural number (truncating).
FromNat(v, n) ==
    LET RECURSIVE digits(_, _)
        digits(u, m) == IF m = 0 THEN <<>>
                        ELSE <<u % 256>> \o digits(u \div 256, m - 1)
    IN  digits(v, Bytes(n))

\* The natural number of a vector whose value is small.
RECURSIVE ToNat(_)
ToNat(a) == IF Len(a) = 0 THEN 0 ELSE a[1] + 256 * ToNat(Tail(a))

\* Conversion of an unsigned value to a type of n bits: zero extension when
\* n is larger, truncation (value mod 2^n) when n is smaller.
ConvU(a, n) == [k \in 1..Bytes(n) |-> IF k <= Len(a) THEN a[k] ELSE 0]

\* Conversion of a signed (two's complement) value to a type of n bits: sign
\* extension when n is larger, truncation when n is smaller.
ConvS(a, n) ==
    [k \in 1..Bytes(n) |-> IF k <= Len(a) THEN a[k]
                           ELSE IF a[Len(a)] >= 128 THEN 255 ELSE 0]

\* Bitwise OR and AND of two bytes, bit by bit from the least significant.
RECURSIVE ByteOr(_, _, _)
ByteOr(p, q, bits) ==
    IF bits = 0 THEN 0
    ELSE (IF p % 2 = 1 \/ q % 2 = 1 THEN 1 ELSE 0)
           + 2 * ByteOr(p \div 2, q \div 2, bits - 1)

RECURSIVE ByteAnd(_, _, _)
ByteAnd(p, q, bits) ==
    IF bits = 0 THEN 0
    ELSE (IF p % 2 = 1 /\ q % 2 = 1 THEN 1 ELSE 0)
           + 2 * ByteAnd(p \div 2, q \div 2, bits - 1)

BitNot(a)    == [k \in 1..Len(a) |-> 255 - a[k]]
BitOr(a, b)  == [k \in 1..Len(a) |-> ByteOr(a[k], b[k], 8)]
BitAnd(a, b) == [k \in 1..Len(a) |-> ByteAnd(a[k], b[k], 8)]

\* Ripple-carry sum of two vectors of one length plus a carry; the result has
\* that length too, i.e. the sum wraps modulo 2^(8 * Len(a)).
RECURSIVE AddC(_, _, _)
AddC(a, b, c) ==
    IF Len(a) = 0 THEN <<>>
    ELSE LET t == a[1] + b[1] + c
         IN  <<t % 256>> \o AddC(Tail(a), Tail(b), t \div 256)

WrapAdd(a, b) == AddC(a, b, 0)
WrapNeg(a)    == AddC(BitNot(a), Zeros(8 * Len(a)), 1)
WrapSub(a, b) == AddC(a, BitNot(b), 1)

\* Unsigned order on vectors of one length, decided at the most significant
\* byte where they differ; ULessAt looks at bytes k, k-1, ..., 1.
RECURSIVE ULessAt(_, _, _)
ULessAt(a, b, k) ==
    IF k = 0 THEN FALSE
    ELSE IF a[k] # b[k] THEN a[k] < b[k]
    ELSE ULessAt(a, b, k - 1)

ULess(a, b) == ULessAt(a, b, Len(a))

ULeq(a, b) == a = b \/ ULess(a, b)

\* The sign bit of a two's complement value.
SignBit(a) == IF a[Len(a)] >= 128 THEN 1 ELSE 0

\* Signed (two's complement) order on vectors of one length.
SLess(a, b) ==
    IF SignBit(a) # SignBit(b) THEN SignBit(a) = 1
    ELSE ULess(a, b)

----
(* Numeric types: min, max, sat_add, sat_sub.                              *)

\* The widths of uint8_t, uint16_t, uint32_t and uint64_t.
Widths == {8, 16, 32, 64}

\* The width of int.  Operands of a narrower type are promoted to int before
\* any arithmetic, comparison or bitwise operation.
IntBits == 32

\* Width of the type in which C evaluates a binary operator whose operands
\* are n-bit unsigned values (int after promotion, else the type itself).
ArithW(n) == IF n < IntBits THEN IntBits ELSE n

\* a < b and a <= b as C evaluates them on two n-bit unsigned operands:
\* a signed comparison of the promoted ints for n < IntBits, an unsigned
\* comparison otherwise.
CLess(n, a, b) ==
    IF n < IntBits THEN SLess(ConvU(a, IntBits), ConvU(b, IntBits))
    ELSE ULess(a, b)

CLeq(n, a, b) == ~CLess(n, b, a)

\* -(c) for a comparison result c: the int 0 or the int -1.
NegBool(c) == WrapNeg(FromNat(IF c THEN 1 ELSE 0, IntBits))

\* x < y ? x : y
MinT(n, a, b) == IF CLess(n, a, b) THEN a ELSE b

\* x > y ? x : y
MaxT(n, a, b) == IF CLess(n, b, a) THEN a ELSE b

\* sat_add with the overflow test written (res <= x).
SatAddRun_leq(n, a, b) ==
    LET pw      == ArithW(n)
        wrapped == ConvU(WrapAdd(ConvU(a, pw), ConvU(b, pw)), n)
        cmp     == CLeq(n, wrapped, a)
        ored    == BitOr(ConvU(wrapped, pw), ConvS(NegBool(cmp), pw))
    IN  [wrapped |-> wrapped, cmp |-> cmp, res |-> ConvU(ored, n)]

\* uintN_t res = x + y;  res |= -(res < x);  return res;
\* wrapped is res after the first statement, cmp is (res < x).
SatAddRun(n, a, b) ==
    LET pw      == ArithW(n)
        wrapped == ConvU(WrapAdd(ConvU(a, pw), ConvU(b, pw)), n)
        cmp     == CLess(n, wrapped, a)
        ored    == BitOr(ConvU(wrapped, pw), ConvS(NegBool(cmp), pw))
    IN  [wrapped |-> wrapped, cmp |-> cmp, res |-> ConvU(ored, n)]

\* sat_sub with the underflow test written (res < x).
SatSubRun_lt(n, a, b) ==
    LET pw      == ArithW(n)
        wrapped == ConvU(WrapSub(ConvU(a, pw), ConvU(b, pw)), n)
        cmp     == CLess(n, wrapped, a)
        anded   == BitAnd(ConvU(wrapped, pw), ConvS(NegBool(cmp), pw))
    IN  [wrapped |-> wrapped, cmp |-> cmp, res |-> ConvU(anded, n)]

\* sat_sub with the mask inverted: cleared when (res <= x) holds.
SatSubRun_inv(n, a, b) ==
    LET pw      == ArithW(n)
        wrapped == ConvU(WrapSub(ConvU(a, pw), ConvU(b, pw)), n)
        cmp     == CLeq(n, wrapped, a)
        anded   == BitAnd(ConvU(wrapped, pw), ConvS(NegBool(~cmp), pw))
    IN  [wrapped |-> wrapped, cmp |-> cmp, res |-> ConvU(anded, n)]

\* uintN_t res = x - y;  res &= -(res <= x);  return res;
\* wrapped is res after the first statement, cmp is (res <= x).
SatSubRun(n, a, b) ==
    LET pw      == ArithW(n)
        wrapped == ConvU(WrapSub(ConvU(a, pw), ConvU(b, pw)), n)
        cmp     == CLeq(n, wrapped, a)
        anded   == BitAnd(ConvU(wrapped, pw), ConvS(NegBool(cmp), pw))
    IN  [wrapped |-> wrapped, cmp |-> cmp, res |-> ConvU(anded, n)]

wuffs_base__u8__min(a, b)  == MinT(8, a, b)
wuffs_base__u8__max(a, b)  == MaxT(8, a, b)
wuffs_base__u16__min(a, b) == MinT(16, a, b)
wuffs_base__u16__max(a, b) == MaxT(16, a, b)
wuffs_base__u32__min(a, b) == MinT(32, a, b)
wuffs_base__u32__max(a, b) == MaxT(32, a, b)
wuffs_base__u64__min(a, b) == MinT(64, a, b)
wuffs_base__u64__max(a, b) == MaxT(64, a, b)

wuffs_base__u8__sat_add(a, b)  == SatAddRun(8, a, b)
wuffs_base__u8__sat_sub(a, b)  == SatSubRun(8, a, b)
wuffs_base__u16__sat_add(a, b) == SatAddRun(16, a, b)
wuffs_base__u16__sat_sub(a, b) == SatSubRun(16, a, b)
wuffs_base__u32__sat_add(a, b) == SatAddRun(32, a, b)
wuffs_base__u32__sat_sub(a, b) == SatSubRun(32, a, b)
wuffs_base__u64__sat_add(a, b) == SatAddRun(64, a, b)
wuffs_base__u64__sat_sub(a, b) == SatSubRun(64, a, b)

\* Input values of width n: those within EdgeSpan of 0, of 2^n - 1, and of
\* 2^(n-1) from either side.
EdgeValues(n) ==
    UNION { LET lo  == FromNat(k, n)
                mid == [lo EXCEPT ![Bytes(n)] = @ + 128]
            IN  {lo, BitNot(lo), mid, BitNot(mid)} : k \in 0..EdgeSpan }

\* The 8-bit operands of the documented examples sat_add(250, 10) and
\* sat_sub(5, 10).
ExampleValues == {FromNat(5, 8), FromNat(10, 8), FromNat(250, 8)}

Inputs(n) == EdgeValues(n) \cup (IF n = 8 THEN ExampleValues ELSE {})

NoLoc == [wrapped |-> <<>>, cmp |-> FALSE]

IdleNum ==
    /\ w = 8 /\ x = Zeros(8) /\ y = Zeros(8)
    /\ op = "none" /\ res = <<>> /\ loc = NoLoc

IdleStatus == z = [null |-> TRUE, str |-> <<>>] /\ ret = [f \in {} |-> FALSE]

IdleSlice ==
    /\ wordsize = 64 /\ elem = 8 /\ buf = <<>>
    /\ recv = [ptr |-> Zeros(64), len |-> Zeros(64)]
    /\ out = [ptr |-> Zeros(64), len |-> Zeros(64)]
    /\ sop = "none" /\ si = Zeros(64) /\ sj = Zeros(64)

InitNum ==
    /\ w \in Widths
    /\ x \in Inputs(w)
    /\ y \in Inputs(w)
    /\ op = "none" /\ res = <<>> /\ loc = NoLoc
    /\ IdleStatus /\ IdleSlice

Min ==
    /\ op' = "min"
    /\ res' = CASE w = 8  -> wuffs_base__u8__min(x, y)
                [] w = 16 -> wuffs_base__u16__min(x, y)
                [] w = 32 -> wuffs_base__u32__min(x, y)
                [] w = 64 -> wuffs_base__u64__min(x, y)
    /\ loc' = NoLoc
    /\ UNCHANGED <<w, x, y, statusVars, sliceVars>>

Max ==
    /\ op' = "max"
    /\ res' = CASE w = 8  -> wuffs_base__u8__max(x, y)
                [] w = 16 -> wuffs_base__u16__max(x, y)
                [] w = 32 -> wuffs_base__u32__max(x, y)
                [] w = 64 -> wuffs_base__u64__max(x, y)
    /\ loc' = NoLoc
    /\ UNCHANGED <<w, x, y, statusVars, sliceVars>>

SatAdd ==
    LET run == CASE w = 8  -> wuffs_base__u8__sat_add(x, y)
                 [] w = 16 -> wuffs_base__u16__sat_add(x, y)
                 [] w = 32 -> wuffs_base__u32__sat_add(x, y)
                 [] w = 64 -> wuffs_base__u64__sat_add(x, y)
    IN  /\ op' = "sat_add"
        /\ res' = run.res
        /\ loc' = [wrapped |-> run.wrapped, cmp |-> run.cmp]
        /\ UNCHANGED <<w, x, y, statusVars, sliceVars>>

SatSub ==
    LET run == CASE w = 8  -> wuffs_base__u8__sat_sub(x, y)
                 [] w = 16 -> wuffs_base__u16__sat_sub(x, y)
                 [] w = 32 -> wuffs_base__u32__sat_sub(x, y)
                 [] w = 64 -> wuffs_base__u64__sat_sub(x, y)
    IN  /\ op' = "sat_sub"
        /\ res' = run.res
        /\ loc' = [wrapped |-> run.wrapped, cmp |-> run.cmp]
        /\ UNCHANGED <<w, x, y, statusVars, sliceVars>>

NextNum == Min \/ Max \/ SatAdd \/ SatSub

SpecNum == InitNum /\ [][NextNum]_vars

----------------------------------------------------------------------------
(* The mathematics the arithmetic claims are stated in.                    *)

\* A type one byte wider than that of the n-bit value a.
Wider(a) == 8 * (Len(a) + 1)

\* x + y without truncation: the sum of the operands zero-extended by a byte.
MathSum(a, b) == WrapAdd(ConvU(a, Wider(a)), ConvU(b, Wider(a)))

\* min(v, 2^n - 1) of a value v one byte wider than n bits, as an n-bit value.
ClampHigh(v) ==
    LET n == 8 * (Len(v) - 1)
    IN  IF ULess(v, ConvU(Ones(n), 8 * Len(v))) THEN ConvU(v, n) ELSE Ones(n)

\* x - y without truncation: the two's complement difference of the operands
\* zero-extended by a byte.
MathDiff(a, b) == WrapSub(ConvU(a, Wider(a)), ConvU(b, Wider(a)))

\* max(v, 0) of a two's complement value v one byte wider than n bits, as an
\* n-bit value.
ClampLow(v) ==
    LET n == 8 * (Len(v) - 1)
    IN  IF SignBit(v) = 1 THEN Zeros(n) ELSE ConvU(v, n)

\* 2^n for a multiple n of 8.
Pow2(n) == ToNat([k \in 1..(Bytes(n) + 1) |-> IF k = Bytes(n) + 1 THEN 1 ELSE 0])

IntMin(a, b) == IF a < b THEN a ELSE b
IntMax(a, b) == IF a > b THEN a ELSE b

\* Widths whose values and sums are small enough to be checked as integers
\* as well.
SmallWidths == {8, 16}

\* C1: for every width and every x, y of that width, sat_add(x, y) is
\* min(x + y, 2^w - 1) with x + y the untruncated sum.
C1_SatAddIsClampedSum ==
    op = "sat_add" =>
        /\ Len(res) = Bytes(w)
        /\ res = ClampHigh(MathSum(x, y))
        /\ w \in SmallWidths =>
              ToNat(res) = IntMin(ToNat(x) + ToNat(y), Pow2(w) - 1)
        /\ (w = 8 /\ ToNat(x) = 250 /\ ToNat(y) = 10) => ToNat(res) = 255

\* sat_add has run on the documented overflowing pair.
C1_Witness ==
    /\ op = "sat_add"
    /\ w = 8 /\ x = FromNat(250, 8) /\ y = FromNat(10, 8)
    /\ res = Ones(8)

\* C2: for every width and every x, y of that width, sat_sub(x, y) is
\* max(x - y, 0) with x - y the untruncated difference.
C2_SatSubIsClampedDiff ==
    op = "sat_sub" =>
        /\ Len(res) = Bytes(w)
        /\ res = ClampLow(MathDiff(x, y))
        /\ w \in SmallWidths =>
              ToNat(res) = IntMax(ToNat(x) - ToNat(y), 0)
        /\ (w = 8 /\ ToNat(x) = 5 /\ ToNat(y) = 10) => ToNat(res) = 0

C2_Witness ==
    /\ op = "sat_sub"
    /\ w = 8 /\ x = FromNat(5, 8) /\ y = FromNat(10, 8)
    /\ res = Zeros(8)

\* C9 as stated: sat_sub returns 0 whenever its comparison (res <= x) of the
\* wrapped difference with x is true.
C9_ClearsWhenComparisonTrue ==
    (op = "sat_sub" /\ loc.cmp) => res = Zeros(w)

\* C9, amended: sat_sub computes the wrapped difference res = x - y mod 2^w
\* and compares (res <= x); the comparison is true exactly when there is no
\* underflow, and then the difference is returned; when it is false all bits
\* are cleared and 0 is returned.
C9_ClearsWhenComparisonFalse ==
    op = "sat_sub" =>
        /\ loc.wrapped = ConvU(MathDiff(x, y), w)
        /\ loc.cmp <=> ULeq(loc.wrapped, x)
        /\ loc.cmp <=> ULeq(y, x)
        /\ res = IF loc.cmp THEN loc.wrapped ELSE Zeros(w)

\* A 32-bit underflow: the wrapped difference is not 0, the comparison is
\* false and the result is 0.
C9_Witness ==
    /\ op = "sat_sub" /\ w = 32
    /\ loc.wrapped # Zeros(32) /\ ~loc.cmp
    /\ res = Zeros(32)

----------------------------------------------------------------------------
(* Statuses.                                                               *)

\* typedef const char* wuffs_base__status: NULL, or a pointer to a
\* NUL-terminated message; str holds the characters before the NUL.
Dollar   == 36
Question == 63
NUL      == 0

\* Characters of the modelled messages: '#', '$', '?', '@' and 'a'.
CharSet == {35, Dollar, Question, 64, 97}

RECURSIVE Strings(_)
Strings(n) ==
    IF n = 0 THEN {<<>>}
    ELSE LET shorter == Strings(n - 1)
         IN  shorter \cup {<<c>> \o t : c \in CharSet,
                                        t \in {u \in shorter : Len(u) = n - 1}}

Statuses ==
    {[null |-> TRUE, str |-> <<>>]}
        \cup {[null |-> FALSE, str |-> t] : t \in Strings(MaxStatusLen)}

\* *z for a non-NULL z: the first character, or the terminating NUL of an
\* empty message.
Deref(v) == IF v.str = <<>> THEN NUL ELSE v.str[1]

\* is_complete that forgets the errors.
wuffs_base__status__is_complete_m(v) == v.null \/ Deref(v) # Dollar

\* return (z == NULL) || ((*z != '$') && (*z != '?'));
wuffs_base__status__is_complete(v) ==
    v.null \/ (Deref(v) # Dollar /\ Deref(v) # Question)

\* return z && (*z == '?');
wuffs_base__status__is_error(v) == ~v.null /\ Deref(v) = Question

\* return z == NULL;
wuffs_base__status__is_ok(v) == v.null

\* return z && (*z == '$');
wuffs_base__status__is_suspension(v) == ~v.null /\ Deref(v) = Dollar

\* is_warning that forgets the errors.
wuffs_base__status__is_warning_m(v) == ~v.null /\ Deref(v) # Dollar

\* return z && (*z != '$') && (*z != '?');
wuffs_base__status__is_warning(v) ==
    ~v.null /\ Deref(v) # Dollar /\ Deref(v) # Question

\* ret records, per predicate called so far, what it returned for z.
Record(f, b) ==
    [g \in (DOMAIN ret) \cup {f} |-> IF g = f THEN b ELSE ret[g]]

InitStatus ==
    /\ z \in Statuses
    /\ ret = [f \in {} |-> FALSE]
    /\ IdleNum /\ IdleSlice

IsComplete ==
    /\ ret' = Record("is_complete", wuffs_base__status__is_complete(z))
    /\ UNCHANGED <<z, numVars, sliceVars>>

IsError ==
    /\ ret' = Record("is_error", wuffs_base__status__is_error(z))
    /\ UNCHANGED <<z, numVars, sliceVars>>

IsOk ==
    /\ ret' = Record("is_ok", wuffs_base__status__is_ok(z))
    /\ UNCHANGED <<z, numVars, sliceVars>>

IsSuspension ==
    /\ ret' = Record("is_suspension", wuffs_base__status__is_suspension(z))
    /\ UNCHANGED <<z, numVars, sliceVars>>

IsWarning ==
    /\ ret' = Record("is_warning", wuffs_base__status__is_warning(z))
    /\ UNCHANGED <<z, numVars, sliceVars>>

NextStatus == IsComplete \/ IsError \/ IsOk \/ IsSuspension \/ IsWarning

SpecStatus == InitStatus /\ [][NextStatus]_vars

Categories == {"is_ok", "is_warning", "is_suspension", "is_error"}

\* C3: for every status value, exactly one of is_ok, is_warning,
\* is_suspension and is_error is true.
C3_CategoriesPartition ==
    Categories \subseteq DOMAIN ret =>
        Cardinality({f \in Categories : ret[f]}) = 1

\* All four predicates have classified the empty message (first character
\* NUL), which is a warning.
C3_Witness ==
    /\ Categories \subseteq DOMAIN ret
    /\ ~z.null /\ z.str = <<>>
    /\ ret["is_warning"]

\* C4: is_complete(z) is true iff is_ok(z) or is_warning(z) is; it is false
\* exactly when z is a suspension or an error.
C4_CompleteIsOkOrWarning ==
    /\ {"is_complete", "is_ok", "is_warning"} \subseteq DOMAIN ret =>
          (ret["is_complete"] <=> (ret["is_ok"] \/ ret["is_warning"]))
    /\ {"is_complete", "is_suspension", "is_error"} \subseteq DOMAIN ret =>
          (~ret["is_complete"] <=> (ret["is_suspension"] \/ ret["is_error"]))

\* All five predicates have run on a suspension, which is not complete.
C4_Witness ==
    /\ DOMAIN ret = Categories \cup {"is_complete"}
    /\ ~z.null /\ Deref(z) = Dollar
    /\ ~ret["is_complete"] /\ ret["is_suspension"]

----------------------------------------------------------------------------
(* Slices.                                                                 *)

\* The width of uint64_t, the type of the index arguments.
U64Bits == 64

\* __WORDSIZE: the width of size_t and of a pointer is 32 or 64 bits.
WordSizes == {32, 64}

\* SIZE_MAX, as a size_t.
SIZE_MAX == Ones(wordsize)

\* The null pointer, and the address of the first element of the
\* caller-owned buffer.
NULL    == Zeros(wordsize)
BufBase == FromNat(4096, wordsize)

\* The element types WUFFS_BASE__SLICE is instantiated for, by width:
\* wuffs_base__slice_u8 .. wuffs_base__slice_u64.
SliceWidths == {8, 16, 32, 64}

\* As if slice_u16 had the functions too.
HasSubslice_m(n) == n \in {8, 16}

\* The slice types that have subslice_i, subslice_j and subslice_ij
\* functions: wuffs_base__slice_u8 alone.
HasSubslice(n) == n = 8

\* ((wuffs_base__slice_u8){}): all fields NULL or zero.
EmptySlice == [ptr |-> NULL, len |-> Zeros(wordsize)]

\* s.ptr + i for a uint8_t* s.ptr: sizeof(uint8_t) is 1, so the address
\* advances by i.  For the all-zero slice the only in-range index is 0 and
\* NULL + 0 is NULL.
PtrAddU8(p, i) == WrapAdd(p, ConvU(i, wordsize))

\* subslice_i that keeps the receiver's length.
wuffs_base__slice_u8__subslice_i_m(s, i) ==
    IF ULeq(i, ConvU(SIZE_MAX, U64Bits)) /\ ULeq(i, ConvU(s.len, U64Bits))
    THEN [ptr |-> PtrAddU8(s.ptr, i), len |-> s.len]
    ELSE EmptySlice

\* if ((i <= SIZE_MAX) && (i <= s.len))
\*   return {.ptr = s.ptr + i, .len = s.len - i};
\* return {};
wuffs_base__slice_u8__subslice_i(s, i) ==
    IF ULeq(i, ConvU(SIZE_MAX, U64Bits)) /\ ULeq(i, ConvU(s.len, U64Bits))
    THEN [ptr |-> PtrAddU8(s.ptr, i),
          len |-> ConvU(WrapSub(ConvU(s.len, U64Bits), i), wordsize)]
    ELSE EmptySlice

\* subslice_j that compares the index after converting it to a size_t.
wuffs_base__slice_u8__subslice_j_m(s, j) ==
    IF ULeq(ConvU(j, wordsize), s.len)
    THEN [ptr |-> s.ptr, len |-> ConvU(j, wordsize)]
    ELSE EmptySlice

\* if ((j <= SIZE_MAX) && (j <= s.len))
\*   return {.ptr = s.ptr, .len = j};
\* return {};
wuffs_base__slice_u8__subslice_j(s, j) ==
    IF ULeq(j, ConvU(SIZE_MAX, U64Bits)) /\ ULeq(j, ConvU(s.len, U64Bits))
    THEN [ptr |-> s.ptr, len |-> ConvU(j, wordsize)]
    ELSE EmptySlice

\* subslice_ij that tests (i < j).
wuffs_base__slice_u8__subslice_ij_lt(s, i, j) ==
    IF /\ ULess(i, j)
       /\ ULeq(j, ConvU(SIZE_MAX, U64Bits))
       /\ ULeq(j, ConvU(s.len, U64Bits))
    THEN [ptr |-> PtrAddU8(s.ptr, i),
          len |-> ConvU(WrapSub(j, i), wordsize)]
    ELSE EmptySlice

\* subslice_ij that does not test (j <= s.len).
wuffs_base__slice_u8__subslice_ij_nolen(s, i, j) ==
    IF /\ ULeq(i, j)
       /\ ULeq(j, ConvU(SIZE_MAX, U64Bits))
    THEN [ptr |-> PtrAddU8(s.ptr, i),
          len |-> ConvU(WrapSub(j, i), wordsize)]
    ELSE EmptySlice

\* if ((i <= j) && (j <= SIZE_MAX) && (j <= s.len))
\*   return {.ptr = s.ptr + i, .len = j - i};
\* return {};
wuffs_base__slice_u8__subslice_ij(s, i, j) ==
    IF /\ ULeq(i, j)
       /\ ULeq(j, ConvU(SIZE_MAX, U64Bits))
       /\ ULeq(j, ConvU(s.len, U64Bits))
    THEN [ptr |-> PtrAddU8(s.ptr, i),
          len |-> ConvU(WrapSub(j, i), wordsize)]
    ELSE EmptySlice

\* Index arguments: 0 .. MaxLen + 1, and values no size_t of a 32-bit build
\* can hold (2^32, 2^32 + 1) or that are the largest uint64_t.
BigIndices ==
    {[FromNat(k, U64Bits) EXCEPT ![5] = 1] : k \in 0..1} \cup {Ones(U64Bits)}

Indices == {FromNat(k, U64Bits) : k \in 0..(MaxLen + 1)} \cup BigIndices

\* The caller's buffer holds n elements; its contents are arbitrary, here
\* element k holds k.
Buffers == {[k \in 1..n |-> k] : n \in {0, MaxLen}}

\* The caller starts from the view of its whole buffer, or from the all-zero
\* view; the views are of any of the four slice types.
InitSlice ==
    /\ wordsize \in WordSizes
    /\ elem \in SliceWidths
    /\ buf \in Buffers
    /\ out \in {[ptr |-> BufBase, len |-> FromNat(Len(buf), wordsize)],
                EmptySlice}
    /\ recv = EmptySlice
    /\ sop = "none" /\ si = Zeros(U64Bits) /\ sj = Zeros(U64Bits)
    /\ IdleNum /\ IdleStatus

\* The caller passes its current view (the previous result) by value and
\* keeps what the function returns.
SubsliceI ==
    /\ HasSubslice(elem)
    /\ \E i \in Indices :
          /\ out' = wuffs_base__slice_u8__subslice_i(out, i)
          /\ si' = i /\ sj' = Zeros(U64Bits)
    /\ recv' = out
    /\ sop' = "subslice_i"
    /\ UNCHANGED <<wordsize, elem, buf, numVars, statusVars>>

SubsliceJ ==
    /\ HasSubslice(elem)
    /\ \E j \in Indices :
          /\ out' = wuffs_base__slice_u8__subslice_j(out, j)
          /\ sj' = j /\ si' = Zeros(U64Bits)
    /\ recv' = out
    /\ sop' = "subslice_j"
    /\ UNCHANGED <<wordsize, elem, buf, numVars, statusVars>>

SubsliceIJ ==
    /\ HasSubslice(elem)
    /\ \E i \in Indices, j \in Indices :
          /\ out' = wuffs_base__slice_u8__subslice_ij(out, i, j)
          /\ si' = i /\ sj' = j
    /\ recv' = out
    /\ sop' = "subslice_ij"
    /\ UNCHANGED <<wordsize, elem, buf, numVars, statusVars>>

NextSlice == SubsliceI \/ SubsliceJ \/ SubsliceIJ

SpecSlice == InitSlice /\ [][NextSlice]_vars

----------------------------------------------------------------------------
(* The mathematics the slice claims are stated in.                         *)

\* The value of a vector as an integer when it is below 2^16, else -1.
SmallNat(a) ==
    IF \A k \in 3..Len(a) : a[k] = 0 THEN a[1] + 256 * a[2] ELSE -1

Cnt(v)  == SmallNat(v.len)
Addr(v) == SmallNat(v.ptr)

\* The canonical empty view: null base address, count 0.
CanonicalEmpty == [ptr |-> Zeros(wordsize), len |-> Zeros(wordsize)]

\* 0 <= i <= s.count, for the index i and the receiver s of the last call.
InRange(i) == SmallNat(i) # -1 /\ SmallNat(i) <= Cnt(recv)

\* 0 <= i <= j <= s.count.
InRange2(i, j) ==
    /\ SmallNat(i) # -1 /\ SmallNat(j) # -1
    /\ SmallNat(i) <= SmallNat(j) /\ SmallNat(j) <= Cnt(recv)

\* C5: out-of-range arguments give the canonical empty view: suffix(s, i)
\* with i > s.count, prefix(s, j) with j > s.count, range(s, i, j) with
\* i > j or j > s.count, also for indices no count can represent.
C5_OutOfRangeIsEmpty ==
    /\ (sop = "subslice_i" /\ ~InRange(si)) => out = CanonicalEmpty
    /\ (sop = "subslice_j" /\ ~InRange(sj)) => out = CanonicalEmpty
    /\ (sop = "subslice_ij" /\ ~InRange2(si, sj)) => out = CanonicalEmpty

\* On a 32-bit build, prefix(s, 2^32 + 1) of a non-empty view: the index,
\* truncated to a size_t, would be the valid index 1.
C5_Witness ==
    /\ sop = "subslice_j" /\ wordsize = 32
    /\ sj = [FromNat(1, U64Bits) EXCEPT ![5] = 1]
    /\ Cnt(recv) >= 1
    /\ out = CanonicalEmpty

\* C6: in-range arguments give exactly the requested window: suffix(s, i)
\* has base s.base + i and count s.count - i, prefix(s, j) has base s.base
\* and count j, range(s, i, j) has base s.base + i and count j - i.
C6_InRangeIsWindow ==
    /\ (sop = "subslice_i" /\ InRange(si)) =>
          /\ Addr(out) = Addr(recv) + SmallNat(si)
          /\ Cnt(out) = Cnt(recv) - SmallNat(si)
    /\ (sop = "subslice_j" /\ InRange(sj)) =>
          /\ out.ptr = recv.ptr
          /\ Cnt(out) = SmallNat(sj)
    /\ (sop = "subslice_ij" /\ InRange2(si, sj)) =>
          /\ Addr(out) = Addr(recv) + SmallNat(si)
          /\ Cnt(out) = SmallNat(sj) - SmallNat(si)

\* suffix(s, s.count) of a non-empty view: count 0, base at the end of s.
C6_Witness ==
    /\ sop = "subslice_i"
    /\ Cnt(recv) >= 1 /\ SmallNat(si) = Cnt(recv)
    /\ Cnt(out) = 0 /\ Addr(out) = Addr(recv) + Cnt(recv)

\* C7: sub-windowing at the full extent is the identity: prefix(s, s.count)
\* = s, suffix(s, 0) = s, and range(r, 0, r.count) = r.
C7_FullExtentIsIdentity ==
    /\ (sop = "subslice_j" /\ SmallNat(sj) = Cnt(recv)) => out = recv
    /\ (sop = "subslice_i" /\ SmallNat(si) = 0) => out = recv
    /\ (sop = "subslice_ij" /\ SmallNat(si) = 0 /\ SmallNat(sj) = Cnt(recv))
          => out = recv

\* range(r, 0, 4) of the view r of count 4 at offset 3 of the buffer, which
\* is what range(s, 3, 7) of the whole buffer returns.
C7_Witness ==
    /\ sop = "subslice_ij"
    /\ si = FromNat(0, U64Bits) /\ sj = FromNat(4, U64Bits)
    /\ Addr(recv) = ToNat(BufBase) + 3 /\ Cnt(recv) = 4
    /\ out = recv

Contained(v) ==
    \/ v = CanonicalEmpty
    \/ /\ Addr(v) >= ToNat(BufBase)
       /\ Cnt(v) >= 0
       /\ Addr(v) + Cnt(v) <= ToNat(BufBase) + Len(buf)

\* C10: after any sequence of subslice_i / subslice_j / subslice_ij calls,
\* each applied to the previous result, the view is canonical-empty or lies
\* within the buffer it started from; no call increases the count, changes
\* the view it was given or changes the buffer.
C10_Containment ==
    /\ []Contained(out)
    /\ [][/\ Cnt(out') <= Cnt(out)
          /\ recv' = out
          /\ buf' = buf]_vars

\* At least two calls were made: the last one was given a proper sub-view
\* and returned a smaller, non-empty one.
C10_Witness ==
    /\ sop # "none"
    /\ Addr(recv) > ToNat(BufBase)
    /\ Cnt(out) >= 1 /\ Cnt(out) < Cnt(recv)
    /\ Contained(out)

====
